---- MODULE Spec2Model ----
(***************************************************************************)
(* A model of the difficulty-chart build pipeline:                         *)
(*   scripts/compile.py            sort_rating_key, validate_difficulty,   *)
(*                                 process_file, main                      *)
(*   scripts/generate_templates.py main                                    *)
(*                                                                         *)
(* Strings whose characters the code inspects (ratings, names) are         *)
(* sequences of one-character strings, so that float(), str.strip() and    *)
(* str.split(' ') are computed and not assumed.  Numbers are held in       *)
(* units of 1/Scale so that decimal ratings such as "1.5" are exact.       *)
(***************************************************************************)
EXTENDS Integers, Sequences, FiniteSets, TLC

\* ------------------------------------------------------------------ bounds
\* Longest rating string enumerated exhaustively over Alphabet.
MaxStrLen == 3

\* Numbers are integers in units of 1/Scale: every decimal string of at most
\* MaxStrLen characters has an exact value.
Scale == 10 ^ MaxStrLen

\* ------------------------------------------------------- python str helpers
Digits == <<"0", "1", "2", "3", "4", "5", "6", "7", "8", "9">>

IsDigit(c) == \E i \in 1..10 : Digits[i] = c

DigitVal(c) == (CHOOSE i \in 1..10 : Digits[i] = c) - 1

\* str.isspace for the characters of the model: space and tab.
IsSpace(c) == c \in {" ", "\t"}

RECURSIVE LStrip(_)
LStrip(s) == IF s # <<>> /\ IsSpace(s[1]) THEN LStrip(Tail(s)) ELSE s

RECURSIVE RStrip(_)
RStrip(s) ==
    IF s # <<>> /\ IsSpace(s[Len(s)]) THEN RStrip(SubSeq(s, 1, Len(s) - 1)) ELSE s

\* str.strip(): leading and trailing whitespace removed.
Strip(s) == RStrip(LStrip(s))

\* s.split(' ')[0]: the characters before the first space (only ' ' splits).
RECURSIVE FirstToken(_)
FirstToken(s) ==
    IF s = <<>> \/ s[1] = " " THEN <<>> ELSE <<s[1]>> \o FirstToken(Tail(s))

RECURSIVE DigitsVal(_)
DigitsVal(s) ==
    IF s = <<>> THEN 0 ELSE DigitsVal(SubSeq(s, 1, Len(s) - 1)) * 10 + DigitVal(s[Len(s)])

AllDigits(s) == \A i \in 1..Len(s) : IsDigit(s[i])

\* ------------------------------------------------------------- float values
\* A Python float (or int) as the sort compares it: finite (v in units of
\* 1/Scale), nan, +inf or -inf.
Fin(v) == [k |-> "fin", v |-> v]
NaN == [k |-> "nan", v |-> 0]
PosInf == [k |-> "pinf", v |-> 0]
NegInf == [k |-> "ninf", v |-> 0]

\* a < b on floats: every comparison with nan is False.
KeyLt(a, b) ==
    CASE a.k = "nan" \/ b.k = "nan" -> FALSE
      [] a.k = "ninf" -> b.k # "ninf"
      [] a.k = "pinf" -> FALSE
      [] b.k = "ninf" -> FALSE
      [] b.k = "pinf" -> TRUE
      [] OTHER -> a.v < b.v

ParseFail == [ok |-> FALSE, key |-> NaN]
ParseOk(x) == [ok |-> TRUE, key |-> x]

\* The decimal literals float() accepts, without exponent or underscores:
\* digits, at most one '.', at least one digit.
ParseDecimal(body, neg) ==
    LET dots == {i \in 1..Len(body) : body[i] = "."}
        dot == IF dots = {} THEN Len(body) + 1 ELSE CHOOSE i \in dots : TRUE
        ip == SubSeq(body, 1, dot - 1)
        fp == SubSeq(body, dot + 1, Len(body))
    IN  IF Cardinality(dots) > 1 \/ ~AllDigits(ip) \/ ~AllDigits(fp)
           \/ Len(ip) + Len(fp) = 0 \/ Len(fp) > MaxStrLen
        THEN ParseFail
        ELSE LET mag == DigitsVal(ip) * Scale + DigitsVal(fp) * 10 ^ (MaxStrLen - Len(fp))
             IN  ParseOk(Fin(IF neg THEN -mag ELSE mag))

\* float(s) for a str: surrounding whitespace stripped, an optional sign, then
\* "nan", "inf", "infinity" or a decimal literal; anything else raises
\* ValueError (ok = FALSE).
ParseFloat(s) ==
    LET t == Strip(s)
        signed == t # <<>> /\ t[1] \in {"+", "-"}
        neg == signed /\ t[1] = "-"
        body == IF signed THEN Tail(t) ELSE t
    IN  CASE body = <<"n", "a", "n">> -> ParseOk(NaN)
          [] body \in {<<"i", "n", "f">>, <<"i", "n", "f", "i", "n", "i", "t", "y">>} ->
                ParseOk(IF neg THEN NegInf ELSE PosInf)
          [] OTHER -> ParseDecimal(body, neg)

\* ------------------------------------------------------------ json values
\* A rating as json.load gives it: a number (v in units of 1/Scale) or a str.
Num(v) == [t |-> "num", v |-> v, s |-> <<>>]
Str(s) == [t |-> "str", v |-> 0, s |-> s]
\* dict.get of an absent key.
None == [t |-> "none", v |-> 0, s |-> <<>>]

\* diff.get(f)
Get(diff, f) == IF f \in DOMAIN diff THEN diff[f] ELSE None

\* ------------------------------------------------- compile.py: the sort key
KEY_NEG_INF == -99999
KEY_INF == 99999
KEY_UNRATED == 99998
KEY_MALFORMED == 99997

UnratedTokens ==
    { <<"?", "?", "?">>, <<"N", "/", "A">>,
      <<"U", "n", "e", "n", "d", "i", "n", "g">>, <<"2", "5", "1", "+">> }

\* float(r) of line 50: a number converts, a str is parsed, None raises TypeError.
FloatOf(r) ==
    CASE r.t = "num" -> ParseOk(Fin(r.v))
      [] r.t = "str" -> ParseFloat(r.s)
      [] OTHER -> ParseFail

\* str(r) of line 53 for the values float(r) rejects: a str is itself, None
\* is "None".
StrOf(r) == IF r.t = "str" THEN r.s ELSE <<"N", "o", "n", "e">>

\* sort_rating_key with the malformed fallback given the unrated bucket's key.
sort_rating_key_fallback_unrated(diff) ==
    LET r == Get(diff, "rating")
    IN  IF r = Str(<<"-", "i", "n", "f">>) THEN Fin(KEY_NEG_INF * Scale)
        ELSE IF r = Str(<<"i", "n", "f">>) THEN Fin(KEY_INF * Scale)
        ELSE IF r.t = "str" /\ r.s \in UnratedTokens THEN Fin(KEY_UNRATED * Scale)
        ELSE IF FloatOf(r).ok THEN FloatOf(r).key
        ELSE IF ParseFloat(FirstToken(StrOf(r))).ok
             THEN ParseFloat(FirstToken(StrOf(r))).key
        ELSE Fin(KEY_UNRATED * Scale)

sort_rating_key(diff) ==
    LET r == Get(diff, "rating")
    IN  IF r = Str(<<"-", "i", "n", "f">>) THEN Fin(KEY_NEG_INF * Scale)
        ELSE IF r = Str(<<"i", "n", "f">>) THEN Fin(KEY_INF * Scale)
        ELSE IF r.t = "str" /\ r.s \in UnratedTokens THEN Fin(KEY_UNRATED * Scale)
        ELSE IF FloatOf(r).ok THEN FloatOf(r).key
        ELSE IF ParseFloat(FirstToken(StrOf(r))).ok
             THEN ParseFloat(FirstToken(StrOf(r))).key
        ELSE Fin(KEY_MALFORMED * Scale)

\* ------------------------------------------------------ list.sort(key=...)
\* CPython's sort for a short list (fewer than 64 items): count_run finds the
\* leading run (non-descending, or strictly descending and then reversed),
\* binarysort inserts the remaining items one by one.  ks is the sequence of
\* keys; the sort is computed on item positions, p[i] being the input
\* position of the item placed i-th.  Only "<" on keys is ever used.
RECURSIVE RunLen(_, _, _)
RunLen(ks, n, desc) ==
    IF n = Len(ks) THEN n
    ELSE IF KeyLt(ks[n + 1], ks[n]) = desc THEN RunLen(ks, n + 1, desc)
    ELSE n

Reverse(s) == [i \in 1..Len(s) |-> s[Len(s) + 1 - i]]

Iota(n) == [i \in 1..n |-> i]

\* count_run followed by reverse_slice of a descending run.
CountRun(ks) ==
    LET desc == KeyLt(ks[2], ks[1])
        n == RunLen(ks, 2, desc)
        head == IF desc THEN Reverse(Iota(n)) ELSE Iota(n)
    IN  [n |-> n, p |-> head \o [i \in 1..(Len(ks) - n) |-> n + i]]

\* binarysort's search: the number of items of p[1..r] that stay before pivot.
RECURSIVE BSearch(_, _, _, _, _)
BSearch(ks, p, pivot, l, r) ==
    IF l >= r THEN l
    ELSE LET mid == l + ((r - l) \div 2)
         IN  IF KeyLt(ks[pivot], ks[p[mid + 1]])
             THEN BSearch(ks, p, pivot, l, mid)
             ELSE BSearch(ks, p, pivot, mid + 1, r)

RECURSIVE BinarySort(_, _, _)
BinarySort(ks, p, start) ==
    IF start > Len(p) THEN p
    ELSE LET pivot == p[start]
             l == BSearch(ks, p, pivot, 0, start - 1)
             q == SubSeq(p, 1, l) \o <<pivot>> \o SubSeq(p, l + 1, start - 1)
                    \o SubSeq(p, start + 1, Len(p))
         IN  BinarySort(ks, q, start + 1)

\* The order list.sort leaves: positions of the input, in output order.
SortPerm(ks) ==
    IF Len(ks) < 2 THEN Iota(Len(ks))
    ELSE LET run == CountRun(ks) IN BinarySort(ks, run.p, run.n + 1)

\* difficulties.sort(key=sort_rating_key)
SortByRating(ds) ==
    LET ks == [i \in 1..Len(ds) |-> sort_rating_key(ds[i])]
        p == SortPerm(ks)
    IN  [i \in 1..Len(ds) |-> ds[p[i]]]

\* --------------------------------------------- compile.py: the validator
REQUIRED_FIELDS == <<"name", "decal_id", "rating", "overview">>

ExampleName ==
    <<"E", "x", "a", "m", "p", "l", "e", " ",
      "D", "i", "f", "f", "i", "c", "u", "l", "t", "y">>

\* One error string, by the parts its f-string is built from: the source
\* file, the 1-based position, the kind and the field; a 'missing field'
\* message also shows diff.get("name", "UNNAMED").
MissingError(diff, source_file, index, f) ==
    [file |-> source_file, pos |-> index + 1, kind |-> "missing", field |-> f,
     shown |-> IF "name" \in DOMAIN diff THEN diff["name"].s
               ELSE <<"U", "N", "N", "A", "M", "E", "D">>]

EmptyNameError(source_file, index) ==
    [file |-> source_file, pos |-> index + 1, kind |-> "empty", field |-> "name",
     shown |-> <<>>]

\* The error (or none) of one pass of the loop over REQUIRED_FIELDS.
FieldErrors(diff, source_file, index, f) ==
    IF f \notin DOMAIN diff THEN <<MissingError(diff, source_file, index, f)>>
    ELSE IF f = "name" /\ Strip(diff[f].s) = <<>>
         THEN <<EmptyNameError(source_file, index)>>
    ELSE <<>>

RECURSIVE ValidateFrom(_, _, _, _)
ValidateFrom(diff, source_file, index, i) ==
    IF i > Len(REQUIRED_FIELDS) THEN <<>>
    ELSE FieldErrors(diff, source_file, index, REQUIRED_FIELDS[i])
           \o ValidateFrom(diff, source_file, index, i + 1)

\* validate_difficulty returning at its first error.
validate_difficulty_first_only(diff, source_file, index) ==
    LET all == ValidateFrom(diff, source_file, index, 1)
    IN  IF all = <<>> THEN <<>> ELSE <<all[1]>>

validate_difficulty(diff, source_file, index) ==
    ValidateFrom(diff, source_file, index, 1)

\* ----------------------------------------- compile.py: the file processor
IsPlaceholder(d) ==
    Get(d, "name") = Str(ExampleName) /\ Get(d, "rating") = Num(0)

\* The filter that keeps every entry.
RemovePlaceholders_none(ds) == ds

RECURSIVE RemovePlaceholders(_)
RemovePlaceholders(ds) ==
    IF ds = <<>> THEN <<>>
    ELSE (IF IsPlaceholder(ds[1]) THEN <<>> ELSE <<ds[1]>>)
           \o RemovePlaceholders(Tail(ds))

RECURSIVE ValidateAll(_, _, _)
ValidateAll(ds, filename, i) ==
    IF i > Len(ds) THEN <<>>
    ELSE validate_difficulty(ds[i], filename, i - 1) \o ValidateAll(ds, filename, i + 1)

\* data is the loaded container, filename the file's name.  Returns the
\* container with its difficulties filtered and sorted, and the errors.
process_file(data, filename) ==
    LET difficulties == RemovePlaceholders(data.difficulties)
        errors == ValidateAll(difficulties, filename, 1)
    IN  [data |-> [data EXCEPT !.difficulties = SortByRating(difficulties)],
         errors |-> errors]

\* ============================================================== the state
VARIABLES
    \* one call of sort_rating_key: the rating, the key returned, returned yet
    kr, kkey, kdone,
    \* one call of process_file: the difficulties loaded, the result
    pf_in, pf_out, pf_errs, pf_done,
    \* one run of compile.py's main
    src_classes, src_chains, pc, todo, all_errors, all_difficulties,
    index_classes, index_chains, dirs0, dirs, files, exit_status,
    \* generate_templates.py's main, run repeatedly
    gfs0, gfs, gi, gcreated, gskipped, gruns

keyVars == <<kr, kkey, kdone>>
fileVars == <<pf_in, pf_out, pf_errs, pf_done>>
runVars == <<src_classes, src_chains, pc, todo, all_errors, all_difficulties,
             index_classes, index_chains, dirs0, dirs, files, exit_status>>
genVars == <<gfs0, gfs, gi, gcreated, gskipped, gruns>>
vars == <<keyVars, fileVars, runVars, genVars>>

\* The variables of a component that is not running.
KeyIdle == kr = None /\ kkey = NaN /\ kdone = FALSE
FileIdle == pf_in = <<>> /\ pf_out = <<>> /\ pf_errs = <<>> /\ pf_done = FALSE
RunIdle ==
    /\ src_classes = <<>> /\ src_chains = <<>> /\ pc = "idle" /\ todo = <<>>
    /\ all_errors = <<>> /\ all_difficulties = <<>> /\ index_classes = <<>>
    /\ index_chains = <<>> /\ dirs0 = {} /\ dirs = {} /\ files = <<>>
    /\ exit_status = -1
GenIdle ==
    /\ gfs0 = <<>> /\ gfs = <<>> /\ gi = 0 /\ gcreated = 0 /\ gskipped = 0
    /\ gruns = 0

\* ================================================= sort_rating_key, alone
\* Rating strings: every string of at most MaxStrLen characters over
\* Alphabet, and the strings the code and its documentation name.
Alphabet == {"1", "5", "-", ".", " ", "\t", "n", "a"}

StringsUpTo(n) == UNION {[1..k -> Alphabet] : k \in 0..n}

NamedStrings ==
    UnratedTokens \cup
    { <<"i", "n", "f">>, <<"-", "i", "n", "f">>, <<"+", "i", "n", "f">>,
      <<"i", "n", "f", "i", "n", "i", "t", "y">>,
      <<"a", "b", "c">>, <<"N", "o", "n", "e">>,
      <<"1", "3", " ", "(", "f", "l", "o", "w", ")">>,
      <<" ", "1", "3", " ", "(", "f", "l", "o", "w", ")">>,
      <<"1", "3", "\t", "(", "f", "l", "o", "w", ")">>,
      <<"2", ".", "5", " ", "x">>, <<"2", "5", "1">>, <<"+", "2">>,
      <<"9", "9", "9", "9", "8">>, <<"9", "9", "9", "9", "9">>,
      <<"1", "0", "0", "0", "0", "0">>, <<"-", "9", "9", "9", "9", "9">>,
      <<"-", "1", "0", "0", "0", "0", "0">> }

\* Numbers json.load gives, in rating units.
NumberSamples ==
    {-100000, -99999, -99998, -251, -1, 0, 1, 2, 13, 251,
     99997, 99998, 99999, 100000}

KeyInputs ==
    {None} \cup {Num(n * Scale) : n \in NumberSamples}
      \cup {Num(Scale \div 2), Num(-(Scale \div 2))}
      \cup {Str(s) : s \in StringsUpTo(MaxStrLen) \cup NamedStrings}

\* The entry whose rating field is r (no field when r is None).
WithRating(r) == IF r = None THEN [f \in {} |-> None] ELSE [rating |-> r]

KeyInit ==
    /\ kr \in KeyInputs /\ kkey = NaN /\ kdone = FALSE
    /\ FileIdle /\ RunIdle /\ GenIdle

KeyCall ==
    /\ ~kdone
    /\ kkey' = sort_rating_key(WithRating(kr))
    /\ kdone' = TRUE
    /\ UNCHANGED <<kr, fileVars, runVars, genVars>>

KeyNext == KeyCall

SpecKey == KeyInit /\ [][KeyNext]_vars

\* ===================================================== process_file, alone
Text(c) == Str(<<c>>)

Without(d, f) == [g \in DOMAIN d \ {f} |-> d[g]]

Full(name, decal, rating) ==
    [name |-> Str(name), decal_id |-> Text(decal), rating |-> rating,
     overview |-> Text("o")]

\* The placeholder of generate_templates.py, and one stripped of the fields
\* the filter does not read.
EXAMPLE_DIFFICULTY ==
    [name |-> Str(ExampleName),
     decal_id |-> Str(<<"r", "b", "x", "a", "s", "s", "e", "t", "i", "d", ":", "/", "/", "0">>),
     rating |-> Num(0),
     overview |-> Text("A")]

BarePlaceholder == [name |-> Str(ExampleName), rating |-> Num(0)]

EntrySamples ==
    { EXAMPLE_DIFFICULTY,
      BarePlaceholder,
      Full(<<"A">>, "a", Num(2 * Scale)),
      Full(<<"B">>, "b", Num(2 * Scale)),
      Full(<<"C">>, "c", Str(<<"1">>)),
      Full(<<"D">>, "d", Str(<<"n", "a", "n">>)),
      Full(<<"E">>, "e", Str(<<"i", "n", "f">>)),
      Without(Full(<<"F">>, "f", Num(5 * Scale)), "overview"),
      Full(<<" ", "\t">>, "g", Str(<<"?", "?", "?">>)),
      Without(Full(<<>>, "h", Str(<<"-", "i", "n", "f">>)), "decal_id"),
      Without(Without(Full(<<"I">>, "i", Num(0)), "name"), "rating"),
      Full(ExampleName, "j", Str(<<"0">>)),
      [f \in {} |-> None] }

\* Longest difficulties list of a container processed alone.
MaxLen == 3

ListsUpTo(S, n) == UNION {[1..k -> S] : k \in 0..n}

\* The name of the file processed alone.
FileName == "class_0.json"

FileInit ==
    /\ pf_in \in ListsUpTo(EntrySamples, MaxLen)
    /\ pf_out = <<>> /\ pf_errs = <<>> /\ pf_done = FALSE
    /\ KeyIdle /\ RunIdle /\ GenIdle

FileCall ==
    /\ ~pf_done
    /\ LET res == process_file([difficulties |-> pf_in], FileName)
       IN  /\ pf_out' = res.data.difficulties
           /\ pf_errs' = res.errors
    /\ pf_done' = TRUE
    /\ UNCHANGED <<pf_in, keyVars, runVars, genVars>>

FileNext == FileCall

SpecFile == FileInit /\ [][FileNext]_vars

\* ===================================================== compile.py: main
\* Longest difficulties list of a class file, and of a chain file, of a
\* compiler run.
MaxRunLen == 2
MaxChainLen == 1

NoFields == [f \in {} |-> None]

\* The files data/classes/*.json and data/chains/*.json may hold, in
\* sorted() order, each with its Path.stem and the fields its container has
\* beside the difficulties: class_0.json names its class, class_1.json and
\* the chain file leave the names to the file name.  Any subset of the files
\* exists.
ClassFiles ==
    << [name |-> "class_0.json", stem |-> <<"c", "l", "a", "s", "s", "_", "0">>,
        meta |-> [class_id |-> Str(<<"i", "d">>), class_name |-> Str(<<"N">>),
                  description |-> Text("x")]],
       [name |-> "class_1.json", stem |-> <<"c", "l", "a", "s", "s", "_", "1">>,
        meta |-> NoFields] >>

ChainFiles ==
    << [name |-> "gar_chain.json",
        stem |-> <<"g", "a", "r", "_", "c", "h", "a", "i", "n">>,
        meta |-> [chain_id |-> Str(<<"i", "d">>)]] >>

\* Entries of class files: the placeholder, a valid entry, and one with a
\* blank name and no overview that sorts before the valid one.
RunEntries ==
    { EXAMPLE_DIFFICULTY,
      Full(<<"A">>, "a", Num(2 * Scale)),
      Without(Full(<<" ">>, "w", Str(<<"1">>)), "overview") }

\* The same, and an entry rated "nan".
RunEntriesNaN == RunEntries \cup {Full(<<"Z">>, "z", Str(<<"n", "a", "n">>))}

ChainEntries ==
    { BarePlaceholder,
      Full(<<"B">>, "b", Num(2 * Scale)),
      Without(Full(<<"G">>, "g", Str(<<"?", "?", "?">>)), "decal_id") }

\* The container of a file: its other fields and its difficulties.
Container(meta, ds) ==
    [f \in DOMAIN meta \cup {"difficulties"} |->
        IF f = "difficulties" THEN ds ELSE meta[f]]

\* The files of a directory: each file absent or holding one list of lists.
RECURSIVE Present(_, _, _)
Present(fs, choice, i) ==
    IF i > Len(fs) THEN <<>>
    ELSE (IF choice[i].present
          THEN <<[name |-> fs[i].name, stem |-> fs[i].stem,
                  data |-> Container(fs[i].meta, choice[i].ds)]>>
          ELSE <<>>) \o Present(fs, choice, i + 1)

Sources(fs, lists) ==
    LET Options == {[present |-> FALSE, ds |-> <<>>]}
                     \cup {[present |-> TRUE, ds |-> ds] : ds \in lists}
    IN  {Present(fs, choice, 1) : choice \in [1..Len(fs) -> Options]}

\* The directories that exist before a run: none (a fresh checkout) or both
\* (an earlier run over chain files made them).
DirStates == {{}, {"dist", "dist/chains"}}

NoFiles == [p \in {} |-> None]

RunInitWith(entries) ==
    /\ src_classes \in Sources(ClassFiles, ListsUpTo(entries, MaxRunLen))
    /\ src_chains \in Sources(ChainFiles, ListsUpTo(ChainEntries, MaxChainLen))
    /\ dirs0 \in DirStates
    /\ dirs = dirs0
    /\ pc = "start" /\ todo = <<>>
    /\ all_errors = <<>> /\ all_difficulties = <<>>
    /\ index_classes = <<>> /\ index_chains = <<>>
    /\ files = NoFiles /\ exit_status = -1
    /\ KeyIdle /\ FileIdle /\ GenIdle

RunInit == RunInitWith(RunEntries)

RunInitNaN == RunInitWith(RunEntriesNaN)

\* os.makedirs that makes nothing.
Makedirs_nothing(ds, d) == ds

\* os.makedirs(d, exist_ok=True) on the set ds of existing directories.
Makedirs(ds, d) == ds \cup {d}

\* save_json(path, data): the file at path holds data.
Save(fs, path, data) == [p \in DOMAIN fs \cup {path} |-> IF p = path THEN data ELSE fs[p]]

\* data.get(f, filepath.stem)
GetOr(data, f, default) == IF f \in DOMAIN data THEN data[f] ELSE default

\* dict(d) with class_id and class_name set.
Tagged(d, id, nm) ==
    [f \in DOMAIN d \cup {"class_id", "class_name"} |->
        CASE f = "class_id" -> id
          [] f = "class_name" -> nm
          [] OTHER -> d[f]]

\* Lines 93-102: the output directory is made, the class files listed.
Start ==
    /\ pc = "start"
    /\ dirs' = Makedirs(dirs, "dist")
    /\ todo' = src_classes
    /\ pc' = "classes"
    /\ UNCHANGED <<src_classes, src_chains, all_errors, all_difficulties,
                   index_classes, index_chains, dirs0, files, exit_status,
                   keyVars, fileVars, genVars>>

\* Lines 104-128: one pass of the loop over the class files.
ProcessClass ==
    /\ pc = "classes" /\ todo # <<>>
    /\ LET f == Head(todo)
           res == process_file(f.data, f.name)
           ds == res.data.difficulties
           id == GetOr(res.data, "class_id", Str(f.stem))
           nm == GetOr(res.data, "class_name", Str(f.stem))
       IN  /\ all_errors' = all_errors \o res.errors
           /\ all_difficulties' =
                all_difficulties \o [i \in 1..Len(ds) |-> Tagged(ds[i], id, nm)]
           /\ files' = Save(files, <<"dist", f.name>>, res.data)
           /\ index_classes' = Append(index_classes,
                [class_id |-> id, class_name |-> nm,
                 description |-> GetOr(res.data, "description", Str(<<>>)),
                 difficulty_count |-> Len(ds), file |-> <<f.name>>])
    /\ todo' = Tail(todo)
    /\ UNCHANGED <<src_classes, src_chains, pc, index_chains, dirs0, dirs,
                   exit_status, keyVars, fileVars, genVars>>

\* Lines 130-132: the class loop is over, the chain files are listed.
BeginChains ==
    /\ pc = "classes" /\ todo = <<>>
    /\ todo' = src_chains
    /\ pc' = "chains"
    /\ UNCHANGED <<src_classes, src_chains, all_errors, all_difficulties,
                   index_classes, index_chains, dirs0, dirs, files, exit_status,
                   keyVars, fileVars, genVars>>

\* Lines 134-153: one pass of the loop over the chain files.
ProcessChain ==
    /\ pc = "chains" /\ todo # <<>>
    /\ LET f == Head(todo)
           res == process_file(f.data, f.name)
           ds == res.data.difficulties
       IN  /\ all_errors' = all_errors \o res.errors
           /\ dirs' = Makedirs(dirs, "dist/chains")
           /\ files' = Save(files, <<"dist/chains", f.name>>, res.data)
           /\ index_chains' = Append(index_chains,
                [chain_id |-> GetOr(res.data, "chain_id", Str(f.stem)),
                 chain_name |-> GetOr(res.data, "chain_name", Str(f.stem)),
                 description |-> GetOr(res.data, "description", Str(<<>>)),
                 difficulty_count |-> Len(ds), file |-> <<"chains", f.name>>])
    /\ todo' = Tail(todo)
    /\ UNCHANGED <<src_classes, src_chains, pc, all_difficulties, index_classes,
                   dirs0, exit_status, keyVars, fileVars, genVars>>

RECURSIVE SumCounts(_)
SumCounts(records) ==
    IF records = <<>> THEN 0
    ELSE records[1].difficulty_count + SumCounts(Tail(records))

\* A total that counts the chains' entries too.
TotalDifficulties_with_chains(combined, chains) == Len(combined) + SumCounts(chains)

\* index.json's total_difficulties: len(all_difficulties).
TotalDifficulties(combined, chains) == Len(combined)

\* Lines 156-166: the combined list is sorted and index.json written.
BuildIndex ==
    /\ pc = "chains" /\ todo = <<>>
    /\ LET sorted == SortByRating(all_difficulties)
       IN  /\ all_difficulties' = sorted
           /\ files' = Save(files, <<"dist", "index.json">>,
                            [total_difficulties |->
                                TotalDifficulties(sorted, index_chains),
                             total_classes |-> Len(index_classes),
                             total_chains |-> Len(index_chains),
                             classes |-> index_classes,
                             chains |-> index_chains])
    /\ pc' = "all"
    /\ UNCHANGED <<src_classes, src_chains, todo, all_errors, index_classes,
                   index_chains, dirs0, dirs, exit_status,
                   keyVars, fileVars, genVars>>

\* Lines 169-173: all.json is written.
WriteAll ==
    /\ pc = "all"
    /\ files' = Save(files, <<"dist", "all.json">>,
                     [total |-> Len(all_difficulties),
                      difficulties |-> all_difficulties])
    /\ pc' = "report"
    /\ UNCHANGED <<src_classes, src_chains, todo, all_errors, all_difficulties,
                   index_classes, index_chains, dirs0, dirs, exit_status,
                   keyVars, fileVars, genVars>>

\* The report without its sys.exit(1).
Report_no_exit ==
    /\ pc = "report"
    /\ exit_status' = 0
    /\ pc' = "done"
    /\ UNCHANGED <<src_classes, src_chains, todo, all_errors, all_difficulties,
                   index_classes, index_chains, dirs0, dirs, files,
                   keyVars, fileVars, genVars>>

\* Lines 176-182: sys.exit(1) when errors were collected, else the normal end.
Report ==
    /\ pc = "report"
    /\ exit_status' = IF all_errors # <<>> THEN 1 ELSE 0
    /\ pc' = "done"
    /\ UNCHANGED <<src_classes, src_chains, todo, all_errors, all_difficulties,
                   index_classes, index_chains, dirs0, dirs, files,
                   keyVars, fileVars, genVars>>

RunNext ==
    \/ Start
    \/ ProcessClass
    \/ BeginChains
    \/ ProcessChain
    \/ BuildIndex
    \/ WriteAll
    \/ Report

SpecRun == RunInit /\ [][RunNext]_vars

\* The same runs, over class files that may also hold an entry rated "nan".
SpecRunNaN == RunInitNaN /\ [][RunNext]_vars

\* ============================================== generate_templates.py
CLASSES ==
    << <<"class_negative", "Class Negative">>, <<"class_0", "Class 0">>,
       <<"class_1", "Class 1">>, <<"class_2", "Class 2">>,
       <<"class_3", "Class 3">>, <<"class_4", "Class 4">>,
       <<"class_5", "Class 5">>, <<"class_6", "Class 6">>,
       <<"class_7", "Class 7">>, <<"class_8", "Class 8">>,
       <<"class_9", "Class 9">>, <<"class_10", "Class 10">>,
       <<"class_11", "Class 11">>, <<"class_12", "Class 12">>,
       <<"class_13", "Class 13">>, <<"class_14", "Class 14">>,
       <<"class_15", "Class 15">>, <<"class_16", "Class 16">>,
       <<"class_17", "Class 17">>, <<"class_18", "Class 18">>,
       <<"class_19", "Class 19">>, <<"class_20a", "Class 20A">>,
       <<"class_20b", "Class 20B">>, <<"class_21", "Class 21">>,
       <<"class_22", "Class 22">>, <<"class_secret", "Class Secret">> >>

CHAINS ==
    << <<"excavation_chain", "Excavation Chain">>, <<"gar_chain", "Gar Chain">>,
       <<"error_chain", "Error Chain">>, <<"death_chain", "Death Chain">> >>

make_class_template(class_id, class_name) ==
    [class_id |-> class_id, class_name |-> class_name,
     description |-> "Description of this class goes here.",
     difficulties |-> <<EXAMPLE_DIFFICULTY>>]

make_chain_template(chain_id, chain_name) ==
    [chain_id |-> chain_id, chain_name |-> chain_name,
     description |-> "Description of this chain goes here.",
     difficulties |-> <<EXAMPLE_DIFFICULTY>>]

\* The path of a target: its directory and "<id>.json", held as the id.
ClassPath(i) == <<"data/classes", CLASSES[i][1]>>
ChainPath(i) == <<"data/chains", CHAINS[i][1]>>

TargetPaths ==
    {ClassPath(i) : i \in 1..Len(CLASSES)} \cup {ChainPath(i) : i \in 1..Len(CHAINS)}

\* The template main writes at a target path.
TemplateAt(path) ==
    IF path[1] = "data/classes"
    THEN LET i == CHOOSE j \in 1..Len(CLASSES) : ClassPath(j) = path
         IN  make_class_template(CLASSES[i][1], CLASSES[i][2])
    ELSE LET i == CHOOSE j \in 1..Len(CHAINS) : ChainPath(j) = path
         IN  make_chain_template(CHAINS[i][1], CHAINS[i][2])

\* A file somebody filled in: no template.
FilledIn == [description |-> "filled in", difficulties |-> <<>>]

\* Most target files that exist before the first run, and most runs.
MaxExisting == 2
MaxGenRuns == 2

\* The body of a loop pass that opens the file whether it exists or not.
WriteTemplate_always(fs, path, template) == Save(fs, path, template)

\* Lines 82-86 and 91-95: the file system after the pass for path.
WriteTemplate(fs, path, template) ==
    IF path \in DOMAIN fs THEN fs ELSE Save(fs, path, template)

\* The subsets of S of at most n elements.
RECURSIVE SubsetsUpTo(_, _)
SubsetsUpTo(S, n) ==
    IF n = 0 THEN {{}}
    ELSE LET smaller == SubsetsUpTo(S, n - 1)
         IN  smaller \cup {T \cup {x} : T \in smaller, x \in S}

GenInit ==
    /\ \E existing \in SubsetsUpTo(TargetPaths, MaxExisting) :
          gfs0 = [p \in existing |-> FilledIn]
    /\ gfs = gfs0
    /\ gi = 0 /\ gcreated = 0 /\ gskipped = 0 /\ gruns = 1
    /\ KeyIdle /\ FileIdle /\ RunIdle

\* Lines 73-78: the directories are made; the loops are about to start.
GenStart ==
    /\ gi = 0
    /\ gi' = 1
    /\ gcreated' = 0 /\ gskipped' = 0
    /\ UNCHANGED <<gfs0, gfs, gruns, keyVars, fileVars, runVars>>

\* One pass of a loop for the target at path: skipped, or created.
GenPass(path, template) ==
    /\ gfs' = WriteTemplate(gfs, path, template)
    /\ IF path \in DOMAIN gfs
       THEN gskipped' = gskipped + 1 /\ gcreated' = gcreated
       ELSE gcreated' = gcreated + 1 /\ gskipped' = gskipped
    /\ gi' = gi + 1
    /\ UNCHANGED <<gfs0, gruns, keyVars, fileVars, runVars>>

\* Lines 80-87: one pass of the loop over CLASSES.
GenClass ==
    /\ gi \in 1..Len(CLASSES)
    /\ GenPass(ClassPath(gi), make_class_template(CLASSES[gi][1], CLASSES[gi][2]))

\* Lines 89-96: one pass of the loop over CHAINS.
GenChain ==
    /\ gi \in (Len(CLASSES) + 1)..(Len(CLASSES) + Len(CHAINS))
    /\ LET i == gi - Len(CLASSES)
       IN  GenPass(ChainPath(i), make_chain_template(CHAINS[i][1], CHAINS[i][2]))

GenDone == gi = Len(CLASSES) + Len(CHAINS) + 1

\* The script is run again.
GenAgain ==
    /\ GenDone /\ gruns < MaxGenRuns
    /\ gruns' = gruns + 1
    /\ gi' = 0
    /\ UNCHANGED <<gfs0, gfs, gcreated, gskipped, keyVars, fileVars, runVars>>

GenNext ==
    \/ GenStart
    \/ GenClass
    \/ GenChain
    \/ GenAgain

SpecGen == GenInit /\ [][GenNext]_vars

\* ======================================================== claims: the key
\* The key of the entry rated with the string s.
K(s) == sort_rating_key([rating |-> Str(s)])

\* A rating neither float() nor float() of its first token accepts, and that
\* is no sentinel: an absent rating, or a string such as "abc".
Malformed(r) ==
    \/ r = None
    \/ /\ r.t = "str"
       /\ r.s \notin UnratedTokens \cup {<<"i", "n", "f">>, <<"-", "i", "n", "f">>}
       /\ ~ParseFloat(r.s).ok
       /\ ~ParseFloat(FirstToken(r.s)).ok

UnratedShareOneKey ==
    /\ K(<<"?", "?", "?">>) = K(<<"N", "/", "A">>)
    /\ K(<<"?", "?", "?">>) = K(<<"U", "n", "e", "n", "d", "i", "n", "g">>)
    /\ K(<<"?", "?", "?">>) = K(<<"2", "5", "1", "+">>)

\* C1 as stated: key("inf") < key(malformed) < key("???") = key("N/A") =
\* key("Unending") = key("251+").
C1_AsStated ==
    (kdone /\ Malformed(kr)) =>
        /\ KeyLt(K(<<"i", "n", "f">>), kkey)
        /\ KeyLt(kkey, K(<<"?", "?", "?">>))
        /\ UnratedShareOneKey

\* C1, amended: key(malformed) < key("???") = key("N/A") = key("Unending") =
\* key("251+") < key("inf"): the unrated sentinels share one key, the
\* malformed fallback lies strictly below it and the "inf" key strictly above.
C1_BucketOrder ==
    (kdone /\ Malformed(kr)) =>
        /\ KeyLt(kkey, K(<<"?", "?", "?">>))
        /\ UnratedShareOneKey
        /\ KeyLt(K(<<"?", "?", "?">>), K(<<"i", "n", "f">>))

C1_Witness ==
    kdone /\ kr = Str(<<"a", "b", "c">>) /\ kkey = Fin(KEY_MALFORMED * Scale)

\* A finite numeric rating: a number, or a string float() reads as a finite
\* number.
FiniteNumeric(r) ==
    \/ r.t = "num"
    \/ r.t = "str" /\ ParseFloat(r.s).ok /\ ParseFloat(r.s).key.k = "fin"

\* C2: for every finite numeric rating r, key("-inf") < key(r) < key("inf").
C2_SentinelsBoundEveryRating ==
    (kdone /\ FiniteNumeric(kr)) =>
        /\ KeyLt(K(<<"-", "i", "n", "f">>), kkey)
        /\ KeyLt(kkey, K(<<"i", "n", "f">>))

\* ============================================== claims: the file processor
\* The placeholder, as the data model words it.
PlaceholderEntry(d) ==
    /\ "name" \in DOMAIN d /\ d["name"] = Str(ExampleName)
    /\ "rating" \in DOMAIN d /\ d["rating"] = Num(0)

Surviving(ds) == SelectSeq(ds, LAMBDA d : ~PlaceholderEntry(d))

IndexPermutations(n) == {p \in [1..n -> 1..n] : \A i, j \in 1..n : p[i] = p[j] => i = j}

\* No entry of ds is placed before one with a smaller key.
Ascending(ds) ==
    \A i, j \in 1..Len(ds) :
        i < j => ~KeyLt(sort_rating_key(ds[j]), sort_rating_key(ds[i]))

KeyEq(a, b) == a.k # "nan" /\ b.k # "nan" /\ a = b

\* out is ds rearranged, entries with equal keys in their order in ds.
StableRearrangement(ds, out) ==
    /\ Len(out) = Len(ds)
    /\ \E p \in IndexPermutations(Len(ds)) :
        /\ \A i \in 1..Len(ds) : out[i] = ds[p[i]]
        /\ \A i, j \in 1..Len(ds) :
             (i < j /\ KeyEq(sort_rating_key(out[i]), sort_rating_key(out[j])))
                => p[i] < p[j]

\* C3: the difficulties process_file returns are the input without its
\* placeholders, rearranged, ascending by sort_rating_key, ties in input order.
C3_SortedStablePermutation ==
    pf_done =>
        /\ StableRearrangement(Surviving(pf_in), pf_out)
        /\ Ascending(pf_out)

Count(seq, P(_)) == Cardinality({i \in 1..Len(seq) : P(seq[i])})

Blank(s) == \A i \in 1..Len(s) : IsSpace(s[i])

\* C5: each surviving entry, at its 1-based position among the surviving
\* entries before the sort, gets exactly one 'missing field' error per absent
\* required field and exactly one "'name' is empty" error when its name is
\* present and blank, each naming the file; there are no other errors; the
\* entry is in the output as it was.
C5_ValidationErrors ==
    pf_done =>
        LET sv == Surviving(pf_in)
            Expected(i) ==
                Cardinality({f \in {"name", "decal_id", "rating", "overview"} :
                                f \notin DOMAIN sv[i]})
                  + (IF "name" \in DOMAIN sv[i] /\ Blank(sv[i]["name"].s) THEN 1 ELSE 0)
        IN  /\ \A i \in 1..Len(sv) :
                /\ \A f \in {"name", "decal_id", "rating", "overview"} :
                     Count(pf_errs, LAMBDA e : e.file = FileName /\ e.pos = i
                                      /\ e.kind = "missing" /\ e.field = f)
                       = (IF f \in DOMAIN sv[i] THEN 0 ELSE 1)
                /\ Count(pf_errs, LAMBDA e : e.file = FileName /\ e.pos = i
                                      /\ e.kind = "empty")
                     = (IF "name" \in DOMAIN sv[i] /\ Blank(sv[i]["name"].s) THEN 1 ELSE 0)
                /\ Count(pf_errs, LAMBDA e : e.pos = i) = Expected(i)
                /\ Count(pf_out, LAMBDA d : d = sv[i]) = Count(sv, LAMBDA d : d = sv[i])
            /\ \A k \in 1..Len(pf_errs) : pf_errs[k].pos \in 1..Len(sv)

\* A placeholder is dropped, the next entry is valid, and the third lacks its
\* overview: the error names position 2.
C5_Witness ==
    /\ pf_done /\ Len(pf_in) = 3 /\ pf_in[1] = EXAMPLE_DIFFICULTY
    /\ pf_errs = <<MissingError(pf_in[3], FileName, 1, "overview")>>
    /\ Count(pf_out, LAMBDA d : d = pf_in[3]) = 1

\* ==================================================== claims: the compiler
IndexWritten == <<"dist", "index.json">> \in DOMAIN files
AllWritten == <<"dist", "all.json">> \in DOMAIN files

\* The errors the surviving entry d, at 1-based position i of file, calls for.
Invalid(d) ==
    \/ \E f \in {"name", "decal_id", "rating", "overview"} : f \notin DOMAIN d
    \/ "name" \in DOMAIN d /\ Blank(d["name"].s)

ErrorFits(e, d) ==
    \/ e.kind = "missing" /\ e.field \notin DOMAIN d
    \/ e.kind = "empty" /\ "name" \in DOMAIN d /\ Blank(d["name"].s)

SourceFiles == [i \in 1..(Len(src_classes) + Len(src_chains)) |->
                   IF i <= Len(src_classes) THEN src_classes[i]
                   ELSE src_chains[i - Len(src_classes)]]

NoPlaceholderIn(ds) == \A i \in 1..Len(ds) : ~PlaceholderEntry(ds[i])

\* Where the compiled form of source file i is written.
OutPath(i) ==
    IF i <= Len(src_classes) THEN <<"dist", SourceFiles[i].name>>
    ELSE <<"dist/chains", SourceFiles[i].name>>

\* C4: no placeholder entry (name "Example Difficulty", rating 0), whatever
\* its other fields, is in a compiled class file, chain file or all.json, and
\* none contributes an error: every error is one its file's surviving entry
\* at that position calls for; a container holding only the placeholder
\* compiles to an empty list with no error.
C4_PlaceholderNeverCompiled ==
    /\ \A i \in 1..Len(SourceFiles) :
         OutPath(i) \in DOMAIN files =>
            /\ NoPlaceholderIn(files[OutPath(i)].difficulties)
            /\ (\A k \in 1..Len(SourceFiles[i].data.difficulties) :
                   PlaceholderEntry(SourceFiles[i].data.difficulties[k]))
                 => /\ files[OutPath(i)].difficulties = <<>>
                    /\ \A k \in 1..Len(all_errors) :
                          all_errors[k].file # SourceFiles[i].name
    /\ NoPlaceholderIn(all_difficulties)
    /\ AllWritten => NoPlaceholderIn(files[<<"dist", "all.json">>].difficulties)
    /\ \A k \in 1..Len(all_errors) :
         \E i \in 1..Len(SourceFiles) :
            LET sv == Surviving(SourceFiles[i].data.difficulties)
            IN  /\ all_errors[k].file = SourceFiles[i].name
                /\ all_errors[k].pos \in 1..Len(sv)
                /\ ErrorFits(all_errors[k], sv[all_errors[k].pos])

\* A run over a class file holding the full placeholder before a valid entry
\* and a chain file holding only the bare placeholder.
C4_Witness ==
    /\ pc = "done" /\ Len(src_classes) = 1 /\ Len(src_chains) = 1
    /\ src_classes[1].data.difficulties
         = <<EXAMPLE_DIFFICULTY, Full(<<"A">>, "a", Num(2 * Scale))>>
    /\ src_chains[1].data.difficulties = <<BarePlaceholder>>
    /\ files[<<"dist/chains", "gar_chain.json">>].difficulties = <<>>
    /\ Len(files[<<"dist", "all.json">>].difficulties) = 1
    /\ all_errors = <<>> /\ exit_status = 0

AllOutputsWritten ==
    /\ \A i \in 1..Len(SourceFiles) : OutPath(i) \in DOMAIN files
    /\ IndexWritten /\ AllWritten

\* What holds of a run's end: every per-class file, every per-chain file,
\* index.json and all.json are written, the status is 1 if some surviving
\* entry of some file is invalid and 0 if none is; no status is set before.
RunEndsWell ==
    /\ exit_status # -1 => pc = "done"
    /\ pc = "done" =>
         /\ AllOutputsWritten
         /\ exit_status =
              (IF \E i \in 1..Len(SourceFiles) :
                     \E k \in 1..Len(Surviving(SourceFiles[i].data.difficulties)) :
                        Invalid(Surviving(SourceFiles[i].data.difficulties)[k])
               THEN 1 ELSE 0)

\* The statements main has left to run: the passes of its two loops yet to
\* come and the straight-line blocks after them.
RunStepsLeft ==
    CASE pc = "start" -> 5 + Len(src_classes) + Len(src_chains)
      [] pc = "classes" -> 4 + Len(todo) + Len(src_chains)
      [] pc = "chains" -> 3 + Len(todo)
      [] pc = "all" -> 2
      [] pc = "report" -> 1
      [] OTHER -> 0

\* C6: a run over any class and chain source files reaches its end (every
\* step leaves one step less, and only the end has none left), having
\* written every per-class file, every per-chain file, index.json and
\* all.json, and only then has its status: 1 if a validation error was
\* collected, 0 if none was; an error never keeps a later file from being
\* written.
C6_RunCompletes ==
    /\ [](RunEndsWell /\ (RunStepsLeft = 0 <=> pc = "done"))
    /\ [][RunStepsLeft' = RunStepsLeft - 1]_vars

\* The first class file has an invalid entry; the second class file, the
\* chain file and both aggregate files are written all the same.
C6_Witness ==
    /\ pc = "done" /\ exit_status = 1
    /\ Len(src_classes) = 2 /\ Len(src_chains) = 1
    /\ \A k \in 1..Len(all_errors) : all_errors[k].file = "class_0.json"
    /\ Len(all_errors) = 2
    /\ Len(files[<<"dist", "class_1.json">>].difficulties) = 2
    /\ Len(files[<<"dist/chains", "gar_chain.json">>].difficulties) = 1
    /\ IndexWritten /\ AllWritten

\* The surviving entries of the class files, each tagged with its class.
RECURSIVE TaggedSurvivors(_)
TaggedSurvivors(i) ==
    IF i > Len(src_classes) THEN <<>>
    ELSE LET f == src_classes[i]
             sv == Surviving(f.data.difficulties)
             id == IF "class_id" \in DOMAIN f.data THEN f.data["class_id"] ELSE Str(f.stem)
             nm == IF "class_name" \in DOMAIN f.data THEN f.data["class_name"] ELSE Str(f.stem)
         IN  [k \in 1..Len(sv) |->
                [g \in DOMAIN sv[k] \cup {"class_id", "class_name"} |->
                    IF g = "class_id" THEN id
                    ELSE IF g = "class_name" THEN nm ELSE sv[k][g]]]
               \o TaggedSurvivors(i + 1)

SameBag(a, b) ==
    /\ Len(a) = Len(b)
    /\ \A i \in 1..Len(a) : Count(a, LAMBDA x : x = a[i]) = Count(b, LAMBDA x : x = a[i])

\* C7: after a run, all.json's difficulties are ascending by sort_rating_key,
\* are exactly the surviving entries of the class files, each tagged with the
\* class_id and class_name of its container (the file stem without the
\* field), and every compiled class file's own list is ascending.
C7_AllJsonSortedAndTagged ==
    pc = "done" =>
        /\ Ascending(files[<<"dist", "all.json">>].difficulties)
        /\ SameBag(files[<<"dist", "all.json">>].difficulties, TaggedSurvivors(1))
        /\ \A i \in 1..Len(src_classes) :
             Ascending(files[<<"dist", src_classes[i].name>>].difficulties)

\* C8 as stated: after a completed run the output directory and its chains
\* subdirectory both exist.
C8_AsStated == pc = "done" => {"dist", "dist/chains"} \subseteq dirs

\* C8, amended: after a completed run the output directory exists, and its
\* chains subdirectory exists exactly when there is a chain source file or
\* it existed before the run.
C8_OutputDirs ==
    pc = "done" =>
        /\ "dist" \in dirs
        /\ "dist/chains" \in dirs <=> (src_chains # <<>> \/ "dist/chains" \in dirs0)

C8_Witness ==
    /\ pc = "done" /\ dirs0 = {} /\ src_chains # <<>>
    /\ dirs = {"dist", "dist/chains"}

\* C10: in index.json, total_classes and total_chains are the numbers of
\* class and chain source files, each record's difficulty_count is the number
\* of surviving entries of its file, and total_difficulties is the sum of the
\* class records' counts and all.json's total.
C10_IndexTotals ==
    IndexWritten =>
        LET index == files[<<"dist", "index.json">>]
        IN  /\ index.total_classes = Len(src_classes)
            /\ index.total_chains = Len(src_chains)
            /\ Len(index.classes) = Len(src_classes)
            /\ Len(index.chains) = Len(src_chains)
            /\ \A i \in 1..Len(src_classes) :
                 /\ index.classes[i].file = <<src_classes[i].name>>
                 /\ index.classes[i].difficulty_count
                      = Len(Surviving(src_classes[i].data.difficulties))
            /\ \A i \in 1..Len(src_chains) :
                 /\ index.chains[i].file = <<"chains", src_chains[i].name>>
                 /\ index.chains[i].difficulty_count
                      = Len(Surviving(src_chains[i].data.difficulties))
            /\ index.total_difficulties = SumCounts(index.classes)
            /\ AllWritten =>
                 index.total_difficulties = files[<<"dist", "all.json">>].total

\* Two class files with a placeholder among three entries and a chain file
\* with one entry: the total is 2, the chain's entry is not in it.
C10_Witness ==
    /\ pc = "done" /\ Len(src_classes) = 2 /\ Len(src_chains) = 1
    /\ files[<<"dist", "index.json">>].total_difficulties = 2
    /\ files[<<"dist", "index.json">>].chains[1].difficulty_count = 1
    /\ \E i \in 1..2 : \E k \in 1..Len(src_classes[i].data.difficulties) :
          PlaceholderEntry(src_classes[i].data.difficulties[k])

\* ================================================ claims: the generator
\* C9: the generator never overwrites or changes a file that exists at a
\* target path: every file that existed before the first run keeps its
\* content, every other file is the template of its path, no step changes or
\* removes a file that exists, and a second run creates no file and skips
\* every target.
C9_NeverOverwrites ==
    /\ [](/\ \A p \in DOMAIN gfs0 : p \in DOMAIN gfs /\ gfs[p] = gfs0[p]
          /\ \A p \in DOMAIN gfs \ DOMAIN gfs0 : gfs[p] = TemplateAt(p)
          /\ (GenDone /\ gruns >= 2) =>
                /\ gcreated = 0
                /\ gskipped = Len(CLASSES) + Len(CHAINS))
    /\ [][\A p \in DOMAIN gfs : p \in DOMAIN gfs' /\ gfs'[p] = gfs[p]]_vars

\* The second run is over: two filled-in files are as they were, the other
\* twenty-eight were created by the first run and skipped by the second.
C9_Witness ==
    /\ GenDone /\ gruns = 2 /\ gcreated = 0 /\ gskipped = 30
    /\ Cardinality(DOMAIN gfs0) = 2
    /\ \A p \in DOMAIN gfs0 : gfs[p] = FilledIn
    /\ DOMAIN gfs = TargetPaths

====
